---- MODULE Spec2Model ----
\* A model of bit-array-rs (src/src/lib.rs): the Bit and Byte value types,
\* the per-index getters and setters, the array constructors and BitIter.
EXTENDS Integers, Sequences, FiniteSets, TLC

VARIABLES
    raw,      \* Byte.0 of the handle the scenario works on (test_byte)
    op,       \* the last operation called: [name, idx, val, bits]
    out,      \* what the last operation returned: [tag, bit]
    it,       \* the BitIter: [live, byte, idx]
    snap,     \* history: raw at the moment the iterator was created
    yielded,  \* history: the items next() returned as Some, in order
    ncalls,   \* history: next() calls on the current iterator
    nsets,    \* history: set_k calls on the handle since the iterator exists
    calls     \* history: the idx arguments get_bit / set_bit received in the last operation

vars == <<raw, op, out, it, snap, yielded, ncalls, nsets, calls>>

\* ---------------------------------------------------------------- bounds
\* next() calls on one iterator (8 items, then calls past exhaustion)
MaxNextCalls == 10
\* set_k calls on the handle while an iterator is alive
MaxSets == 1
\* largest idx handed to get_bit / set_bit when they are driven directly
MaxIdx == 9

\* ------------------------------------------------------- program constants
\* bits of a byte: the `self.idx < 8` of BitIter::next, the 8 of [bool; 8]
ByteBits == 8
\* u8::MAX
U8Max == 255
\* width of usize, the type of `1 << idx` in get_bit
UsizeBits == 64

Idx == 0 .. (ByteBits - 1)
U8 == 0 .. U8Max

\* ------------------------------------------------------------ arithmetic
RECURSIVE Pow2(_)
Pow2(n) == IF n = 0 THEN 1 ELSE 2 * Pow2(n - 1)

RECURSIVE BitAnd(_, _)
BitAnd(a, b) ==
    IF a = 0 \/ b = 0 THEN 0
    ELSE (a % 2) * (b % 2) + 2 * BitAnd(a \div 2, b \div 2)

RECURSIVE BitOr(_, _)
BitOr(a, b) ==
    IF a = 0 THEN b
    ELSE IF b = 0 THEN a
    ELSE (IF a % 2 = 1 \/ b % 2 = 1 THEN 1 ELSE 0) + 2 * BitOr(a \div 2, b \div 2)

\* `!x` on a u8
NotU8(x) == U8Max - x

\* ------------------------------------------------------------------- Bit
\* struct Bit(bool)
Bit(b) == <<b>>

\* impl Deref for Bit
Bit_deref(bit) == bit[1]

get_zero_bit == Bit(FALSE)

get_one_bit == Bit(TRUE)

is_one(bit) == Bit_deref(bit)

is_zero(bit) == ~is_one(bit)

Bit_from_bool(b) == Bit(b)

Bit_from_u8_OnlyOne(byte) == IF byte = 1 THEN Bit(TRUE) ELSE Bit(FALSE)

Bit_from_u8(byte) == IF byte = 0 THEN Bit(FALSE) ELSE Bit(TRUE)

\* ------------------------------------------------------------------ Byte
\* Outcomes of an operation that may overflow a shift: the build decides
\* between a panic (overflow checks on) and a masked shift amount (off).
Ok(v) == [ok |-> TRUE, v |-> v]

Panic == [ok |-> FALSE, v |-> 0]

\* `1 << idx` with 1: usize (get_bit)
shl_usize(idx) ==
    IF idx < UsizeBits THEN {Ok(Pow2(idx))}
    ELSE {Panic, Ok(Pow2(idx % UsizeBits))}

\* `1 << idx` with 1: u8 (set_bit)
shl_u8(idx) ==
    IF idx < ByteBits THEN {Ok(Pow2(idx))}
    ELSE {Panic, Ok(Pow2(idx % ByteBits))}

Byte_default == 0

Byte_from_u8(byte) == byte

as_byte(self) == self

get_bit_Ge(self, idx) ==
    { IF s.ok THEN Ok(Bit_from_bool(BitAnd(self, s.v) >= 0)) ELSE Panic : s \in shl_usize(idx) }

\* fn get_bit(&self, idx: usize) -> Bit: the outcomes, each Ok(Bit) or Panic
get_bit(self, idx) ==
    { IF s.ok THEN Ok(Bit_from_bool(BitAnd(self, s.v) > 0)) ELSE Panic : s \in shl_usize(idx) }

set_bit_Assign(self, val, idx) ==
    { IF s.ok THEN Ok(IF val THEN s.v ELSE BitAnd(self, NotU8(s.v))) ELSE Panic
        : s \in shl_u8(idx) }

\* fn set_bit(&mut self, val: bool, idx: usize): the outcomes, each Ok(new self.0) or Panic
set_bit(self, val, idx) ==
    { IF s.ok THEN Ok(IF val THEN BitOr(self, s.v) ELSE BitAnd(self, NotU8(s.v))) ELSE Panic
        : s \in shl_u8(idx) }

\* get_0 .. get_7: get_k calls get_bit(k)
get_k(self, k) == get_bit(self, k)

\* set_0 .. set_7: set_k calls set_bit(val, k)
set_k(self, val, k) == set_bit(self, val, k)

\* the index set_k / get_k hand on
index_of(k) == k

from_bools_SameOrder(n) == n

\* the input position the `if` guarding set_n reads in From<[bool; 8]>: bits[7 - n]
from_bools_pos(n) == (ByteBits - 1) - n

\* the first n `if` statements of From<[bool; 8]>, in source order
RECURSIVE from_bools_upto(_, _)
from_bools_upto(bits, n) ==
    IF n = 0 THEN {Ok(Byte_default)}
    ELSE UNION { IF ~o.ok THEN {Panic}
                 ELSE IF bits[from_bools_pos(n - 1)] THEN set_k(o.v, TRUE, n - 1)
                 ELSE {Ok(o.v)}
                 : o \in from_bools_upto(bits, n - 1) }

\* impl From<[bool; 8]> for Byte
Byte_from_bools(bits) == from_bools_upto(bits, ByteBits)

\* the idx arguments set_bit receives during From<[bool; 8]>
from_bools_calls(bits) == { index_of(n) : n \in { m \in Idx : bits[from_bools_pos(m)] } }

\* impl From<[Bit; 8]> for Byte: bits.map(|b| *b), then From<[bool; 8]>
Byte_from_bits(bits) == Byte_from_bools([k \in Idx |-> Bit_deref(bits[k])])

\* --------------------------------------------------------------- BitIter
NoIter == [live |-> FALSE, byte |-> 0, idx |-> 0]

into_iter_Default(self) == [live |-> TRUE, byte |-> Byte_default, idx |-> 0]

\* impl IntoIterator for Byte: byte: self.clone(), idx: 0
into_iter(self) == [live |-> TRUE, byte |-> self, idx |-> 0]

\* impl From<Byte> for BitIter
BitIter_from(byte) == [live |-> TRUE, byte |-> byte, idx |-> 0]

None == [tag |-> "none", bit |-> Bit(FALSE)]

Some(bit) == [tag |-> "some", bit |-> bit]

Unit == [tag |-> "unit", bit |-> Bit(FALSE)]

Returned(bit) == [tag |-> "bit", bit |-> bit]

Panicked == [tag |-> "panic", bit |-> Bit(FALSE)]

next_Le(self) ==
    IF self.idx <= ByteBits
    THEN { IF g.ok
           THEN [res |-> Some(g.v), it |-> [self EXCEPT !.idx = self.idx + 1], calls |-> {self.idx}]
           ELSE [res |-> Panicked, it |-> self, calls |-> {self.idx}]
           : g \in get_bit(self.byte, self.idx) }
    ELSE { [res |-> None, it |-> self, calls |-> {}] }

next_Msb(self) ==
    IF self.idx < ByteBits
    THEN { IF g.ok
           THEN [res |-> Some(g.v), it |-> [self EXCEPT !.idx = self.idx + 1], calls |-> {self.idx}]
           ELSE [res |-> Panicked, it |-> self, calls |-> {self.idx}]
           : g \in get_bit(self.byte, (ByteBits - 1) - self.idx) }
    ELSE { [res |-> None, it |-> self, calls |-> {}] }

next_Wrap(self) ==
    IF self.idx < ByteBits
    THEN { IF g.ok
           THEN [res |-> Some(g.v), it |-> [self EXCEPT !.idx = self.idx + 1], calls |-> {self.idx}]
           ELSE [res |-> Panicked, it |-> self, calls |-> {self.idx}]
           : g \in get_bit(self.byte, self.idx) }
    ELSE { [res |-> None, it |-> [self EXCEPT !.idx = 0], calls |-> {}] }

\* BitIter::next: the outcomes, each [res, it, calls]: what it returns, the
\* iterator it leaves, and the idx arguments it handed to get_bit
next(self) ==
    IF self.idx < ByteBits
    THEN { IF g.ok
           THEN [res |-> Some(g.v), it |-> [self EXCEPT !.idx = self.idx + 1], calls |-> {self.idx}]
           ELSE [res |-> Panicked, it |-> self, calls |-> {self.idx}]
           : g \in get_bit(self.byte, self.idx) }
    ELSE { [res |-> None, it |-> self, calls |-> {}] }

\* BitIter::size_hint: (0, Some(8)), whatever the cursor
size_hint(self) == <<0, ByteBits>>

\* ------------------------------------------------------------ operations
NoBits == [k \in Idx |-> FALSE]

Op(name, idx, val, bits) == [name |-> name, idx |-> idx, val |-> val, bits |-> bits]

Running == out.tag # "panic"

Init ==
    /\ raw = Byte_default
    /\ op = Op("start", 0, FALSE, NoBits)
    /\ out = Unit
    /\ it = NoIter
    /\ snap = 0
    /\ yielded = <<>>
    /\ ncalls = 0
    /\ nsets = 0
    /\ calls = {}

\* let mut test_byte = Byte::from(v)
FromU8(v) ==
    /\ op.name = "start"
    /\ raw' = Byte_from_u8(v)
    /\ op' = Op("from_u8", v, FALSE, NoBits)
    /\ calls' = {}
    /\ UNCHANGED <<out, it, snap, yielded, ncalls, nsets>>

\* let test_byte = Byte::from(bools)
FromBools(bits) ==
    /\ op.name = "start"
    /\ \E o \in Byte_from_bools(bits) :
        /\ raw' = IF o.ok THEN o.v ELSE raw
        /\ out' = IF o.ok THEN Unit ELSE Panicked
    /\ op' = Op("from_bools", 0, FALSE, bits)
    /\ calls' = from_bools_calls(bits)
    /\ UNCHANGED <<it, snap, yielded, ncalls, nsets>>

\* let test_byte = Byte::from(bits), bits: [Bit; 8]
FromBits(bits) ==
    /\ op.name = "start"
    /\ \E o \in Byte_from_bits([k \in Idx |-> Bit_from_bool(bits[k])]) :
        /\ raw' = IF o.ok THEN o.v ELSE raw
        /\ out' = IF o.ok THEN Unit ELSE Panicked
    /\ op' = Op("from_bits", 0, FALSE, bits)
    /\ calls' = from_bools_calls(bits)
    /\ UNCHANGED <<it, snap, yielded, ncalls, nsets>>

\* test_byte.get_k(); a getter reads raw alone, and the scenarios read the
\* handle before they turn to the iterator
Get(k) ==
    /\ Running
    /\ ~it.live
    /\ op.name # "start"
    /\ \E g \in get_k(raw, k) :
        out' = IF g.ok THEN Returned(g.v) ELSE Panicked
    /\ op' = Op("get", k, FALSE, NoBits)
    /\ calls' = {index_of(k)}
    /\ UNCHANGED <<raw, it, snap, yielded, ncalls, nsets>>

\* test_byte.set_k(val)
Set(k, val) ==
    /\ Running
    /\ op.name # "start"
    /\ it.live => nsets < MaxSets
    /\ \E s \in set_k(raw, val, k) :
        /\ raw' = IF s.ok THEN s.v ELSE raw
        /\ out' = IF s.ok THEN Unit ELSE Panicked
    /\ op' = Op("set", k, val, NoBits)
    /\ calls' = {index_of(k)}
    /\ nsets' = IF it.live THEN nsets + 1 ELSE nsets
    /\ UNCHANGED <<it, snap, yielded, ncalls>>

\* let mut iter = test_byte.into_iter()
IntoIter ==
    /\ Running
    /\ op.name # "start"
    /\ it' = into_iter(raw)
    /\ snap' = raw
    /\ yielded' = <<>>
    /\ ncalls' = 0
    /\ nsets' = 0
    /\ out' = Unit
    /\ op' = Op("into_iter", 0, FALSE, NoBits)
    /\ calls' = {}
    /\ UNCHANGED raw

\* let mut iter = BitIter::from(test_byte)
IterFrom ==
    /\ Running
    /\ op.name # "start"
    /\ it' = BitIter_from(raw)
    /\ snap' = raw
    /\ yielded' = <<>>
    /\ ncalls' = 0
    /\ nsets' = 0
    /\ out' = Unit
    /\ op' = Op("iter_from", 0, FALSE, NoBits)
    /\ calls' = {}
    /\ UNCHANGED raw

\* iter.next()
Next_ ==
    /\ Running
    /\ it.live
    /\ ncalls < MaxNextCalls
    /\ \E n \in next(it) :
        /\ it' = n.it
        /\ out' = n.res
        /\ calls' = n.calls
        /\ yielded' = IF n.res.tag = "some" THEN Append(yielded, n.res.bit) ELSE yielded
    /\ ncalls' = ncalls + 1
    /\ op' = Op("next", 0, FALSE, NoBits)
    /\ UNCHANGED <<raw, snap, nsets>>

Bools8 == [Idx -> BOOLEAN]

Next ==
    \/ \E v \in U8 : FromU8(v)
    \/ \E bits \in Bools8 : FromBools(bits)
    \/ \E bits \in Bools8 : FromBits(bits)
    \/ \E k \in Idx : Get(k)
    \/ \E k \in Idx, val \in BOOLEAN : Set(k, val)
    \/ IntoIter
    \/ IterFrom
    \/ Next_

Spec == Init /\ [][Next]_vars

\* ---------------------------------------------- Bit constructors on their own
\* Bit::from(n), n: u8
BitFromU8(n) ==
    /\ out' = Returned(Bit_from_u8(n))
    /\ op' = Op("bit_from_u8", n, FALSE, NoBits)
    /\ UNCHANGED <<raw, it, snap, yielded, ncalls, nsets, calls>>

\* Bit::from(b), b: bool
BitFromBool(b) ==
    /\ out' = Returned(Bit_from_bool(b))
    /\ op' = Op("bit_from_bool", 0, b, NoBits)
    /\ UNCHANGED <<raw, it, snap, yielded, ncalls, nsets, calls>>

\* Bit::get_zero_bit()
GetZeroBit ==
    /\ out' = Returned(get_zero_bit)
    /\ op' = Op("get_zero_bit", 0, FALSE, NoBits)
    /\ UNCHANGED <<raw, it, snap, yielded, ncalls, nsets, calls>>

\* Bit::get_one_bit()
GetOneBit ==
    /\ out' = Returned(get_one_bit)
    /\ op' = Op("get_one_bit", 0, FALSE, NoBits)
    /\ UNCHANGED <<raw, it, snap, yielded, ncalls, nsets, calls>>

NextBit ==
    \/ \E n \in U8 : BitFromU8(n)
    \/ \E b \in BOOLEAN : BitFromBool(b)
    \/ GetZeroBit
    \/ GetOneBit

SpecBit == Init /\ [][NextBit]_vars

\* ------------------------------- get_bit / set_bit driven with any idx
\* a Byte built from any raw value
InitIdx ==
    /\ raw \in U8
    /\ op = Op("from_u8", raw, FALSE, NoBits)
    /\ out = Unit
    /\ it = NoIter
    /\ snap = 0
    /\ yielded = <<>>
    /\ ncalls = 0
    /\ nsets = 0
    /\ calls = {}

\* byte.get_bit(idx), as code inside the crate can call it
GetBit(idx) ==
    /\ Running
    /\ \E g \in get_bit(raw, idx) :
        out' = IF g.ok THEN Returned(g.v) ELSE Panicked
    /\ op' = Op("get_bit", idx, FALSE, NoBits)
    /\ calls' = {idx}
    /\ UNCHANGED <<raw, it, snap, yielded, ncalls, nsets>>

\* byte.set_bit(val, idx), as code inside the crate can call it
SetBit(val, idx) ==
    /\ Running
    /\ \E s \in set_bit(raw, val, idx) :
        /\ raw' = IF s.ok THEN s.v ELSE raw
        /\ out' = IF s.ok THEN Unit ELSE Panicked
    /\ op' = Op("set_bit", idx, val, NoBits)
    /\ calls' = {idx}
    /\ UNCHANGED <<it, snap, yielded, ncalls, nsets>>

NextIdx ==
    \/ \E idx \in 0 .. MaxIdx : GetBit(idx)
    \/ \E idx \in 0 .. MaxIdx, val \in BOOLEAN : SetBit(val, idx)

SpecIdx == InitIdx /\ [][NextIdx]_vars

\* ------------------------------------------------------------- properties
\* bit i of v by arithmetic: the coefficient of 2^i in v
BitOf(v, i) == (v \div Pow2(i)) % 2 = 1

\* the sum of the weights w[k] over the k in 0 .. n-1 with f[k] true
RECURSIVE Weighted(_, _, _)
Weighted(f, w, n) ==
    IF n = 0 THEN 0 ELSE (IF f[n - 1] THEN w[n - 1] ELSE 0) + Weighted(f, w, n - 1)

\* 2^i for bit-index i, and 2^(7-k) for array position k
LsbFirst == [i \in Idx |-> Pow2(i)]

MsbFirst == [k \in Idx |-> Pow2((ByteBits - 1) - k)]

\* what the eight getters answer on self, when none of them panics
Getters(self) == [i \in Idx |-> Bit_deref((CHOOSE g \in get_k(self, i) : TRUE).v)]

GettersTotal(self) == \A i \in Idx : get_k(self, i) \subseteq { Ok(Bit(b)) : b \in BOOLEAN }

\* [true, false, true, false, false, false, false, true] of tests::test_new_byte
ExampleBools == [k \in Idx |-> k \in {0, 2, 7}]

\* C1. Setter locality: a step that is set_k(x) leaves the handle in a state
\* where get_k answers x and every other getter answers what it answered
\* before the step.
SetterLocality ==
    [][op'.name = "set" =>
        /\ out'.tag = "unit"
        /\ get_k(raw', op'.idx) = {Ok(Bit(op'.val))}
        /\ \A j \in Idx \ {op'.idx} : get_k(raw', j) = get_k(raw, j)]_vars

\* a set_5(true) has left 0b1010_0001
SetterLocalityWitness ==
    /\ op.name = "set"
    /\ op.idx = 5
    /\ op.val
    /\ raw = 161

\* C2. Raw/bits consistency: in every state of a handle, after construction
\* and after any sets, no getter panics and as_byte() is the sum of 2^i over
\* the indices i whose getter answers true; a byte built from v reads back v.
RawBitsConsistency ==
    /\ GettersTotal(raw)
    /\ as_byte(raw) = Weighted(Getters(raw), LsbFirst, ByteBits)
    /\ op.name = "from_u8" => as_byte(raw) = op.idx
    /\ raw = 0 => \A i \in Idx : ~Getters(raw)[i]
    /\ raw = U8Max => \A i \in Idx : Getters(raw)[i]

\* a set has produced 0b1010_1010, whose getters alternate
RawBitsConsistencyWitness ==
    /\ op.name = "set"
    /\ raw = 170
    /\ Getters(raw) = [i \in Idx |-> i % 2 = 1]

\* C3. Array-constructor reversal: right after Byte::from(bits), from
\* booleans or from Bits, as_byte() is the sum of 2^(7-k) over the input
\* positions k holding true; the test's array gives 161.
ArrayConstructorReversal ==
    op.name \in {"from_bools", "from_bits"} =>
        /\ out.tag = "unit"
        /\ as_byte(raw) = Weighted(op.bits, MsbFirst, ByteBits)
        /\ \A k \in Idx : BitOf(raw, (ByteBits - 1) - k) = op.bits[k]
        /\ op.bits = ExampleBools => as_byte(raw) = 161

\* the [Bit; 8] constructor has built 161 from the test's array
ArrayConstructorReversalWitness ==
    /\ op.name = "from_bits"
    /\ op.bits = ExampleBools
    /\ raw = 161

\* C4. Iterator completeness and order: the k-th next() on an iterator made
\* from b returns Some(bit k-1 of b) for k in 1..8 and None from the 9th call
\* on; the eight items weigh up to b.
IteratorOrder ==
    it.live =>
        /\ Len(yielded) = (IF ncalls < ByteBits THEN ncalls ELSE ByteBits)
        /\ \A k \in 1 .. Len(yielded) : yielded[k] = Bit(BitOf(snap, k - 1))
        /\ (op.name = "next" /\ ncalls <= ByteBits) => out = Some(Bit(BitOf(snap, ncalls - 1)))
        /\ (op.name = "next" /\ ncalls > ByteBits) => out = None
        /\ Len(yielded) = ByteBits =>
            snap = Weighted([k \in Idx |-> Bit_deref(yielded[k + 1])], LsbFirst, ByteBits)

\* the iteration of tests::test_iter (bits 1, 2, 3, 4, 6 set), with its 9th call
IteratorOrderWitness ==
    /\ op.name = "next"
    /\ ncalls = 9
    /\ out = None
    /\ snap = 94
    /\ yielded = <<Bit(FALSE), Bit(TRUE), Bit(TRUE), Bit(TRUE), Bit(TRUE), Bit(FALSE), Bit(TRUE), Bit(FALSE)>>

\* C5. Iterator length exactness: at every step of the iterator's life
\* size_hint reports exactly 8 - cursor, as lower and as upper bound.
SizeHintExact ==
    it.live => size_hint(it) = <<ByteBits - it.idx, ByteBits - it.idx>>

\* C6. Permanent exhaustion: the cursor is in 0..8 and counts the items
\* yielded; it starts at 0 and moves only by +1 on a next() that returns an
\* item; at cursor 8 a next() returns None and changes neither the cursor
\* nor the captured byte, and after a None every next() returns None.
PermanentExhaustion ==
    /\ [](it.idx \in 0 .. ByteBits /\ (it.live => it.idx = Len(yielded)))
    /\ [][/\ op'.name \in {"into_iter", "iter_from"} => it'.idx = 0
          /\ (op'.name \notin {"into_iter", "iter_from"} /\ it'.idx # it.idx) =>
                (op'.name = "next" /\ out'.tag = "some" /\ it'.idx = it.idx + 1)
          /\ op'.name \notin {"into_iter", "iter_from"} => it'.byte = it.byte
          /\ (op'.name = "next" /\ it.idx = ByteBits) =>
                (out' = None /\ it' = it /\ yielded' = yielded)
          /\ (op'.name = "next" /\ out = None /\ op.name = "next") => out' = None]_vars

\* two calls past exhaustion: both returned None, the cursor is still 8
PermanentExhaustionWitness ==
    /\ op.name = "next"
    /\ ncalls = 10
    /\ out = None
    /\ it.idx = ByteBits

\* C7. Iterator snapshot: whatever sets hit the handle after the iterator
\* was created, the iterator holds the raw value of creation time and its
\* items are that value's bits; next() leaves the handle alone.
IteratorSnapshot ==
    /\ [](it.live =>
            /\ it.byte = snap
            /\ \A k \in 1 .. Len(yielded) : Bit_deref(yielded[k]) = BitOf(snap, k - 1))
    /\ [][op'.name = "next" => raw' = raw]_vars

\* the handle was changed while the iterator ran, and the iteration is complete
IteratorSnapshotWitness ==
    /\ it.live
    /\ nsets > 0
    /\ raw # snap
    /\ snap # 0
    /\ op.name = "next"
    /\ Len(yielded) = ByteBits

\* C8. Integer-to-Bit mapping: Bit::from(n) is Bit::from(n != 0): is_one iff
\* n != 0, is_zero iff n = 0; of every Bit built, exactly one of is_one and
\* is_zero is true.
IntegerToBit ==
    /\ op.name = "bit_from_u8" =>
        /\ out.bit = Bit_from_bool(op.idx # 0)
        /\ is_one(out.bit) = (op.idx # 0)
        /\ is_zero(out.bit) = (op.idx = 0)
    /\ out.tag = "bit" => (is_zero(out.bit) = ~is_one(out.bit))
    /\ out.tag = "bit" => out.bit \in {get_zero_bit, get_one_bit}

\* Bit::from(100) has been built
IntegerToBitWitness ==
    /\ op.name = "bit_from_u8"
    /\ op.idx = 100
    /\ is_one(out.bit)

\* C9. Out-of-range index rejection: get_bit or set_bit called with idx >= 8
\* ends in an error, not in an answer or a write, and leaves the byte as it was.
OutOfRangeRejected ==
    (op.name \in {"get_bit", "set_bit"} /\ op.idx >= ByteBits) => out.tag = "panic"

\* C10. Index always in range: every idx that reaches get_bit or set_bit
\* through the getters, setters, array constructors and the iterator is in
\* 0..7, and no shift overflows.
IndexInRange ==
    /\ calls \subseteq Idx
    /\ out.tag # "panic"

\* the eighth next() has handed get_bit the largest cursor it ever hands on
IndexInRangeWitness ==
    /\ op.name = "next"
    /\ ncalls = ByteBits
    /\ calls = {ByteBits - 1}

====
